---- MODULE Spec2Model ----
(***************************************************************************)
(* Model of libraries/rig-package/src/RigConfig.ts: the loader of          *)
(* config/rig.json (loadForProjectFolder and its async variant, with       *)
(* _validateSchema) and the memoized profile-folder resolver               *)
(* (getResolvedProfileFolder and its async variant).                       *)
(*                                                                         *)
(* A JavaScript string is a sequence of atoms.  An atom is one character   *)
(* ("a", "-", "/") or a chunk of literal text of the source that the code  *)
(* never inspects ("profiles", "Unsupported field ").  Concatenation is    *)
(* \o.  A JavaScript value is a record [t, s]: t = "undefined" or          *)
(* t = "string" with the string s.                                         *)
(***************************************************************************)
EXTENDS Integers, Sequences, FiniteSets, TLC

\* Largest number of getResolvedProfileFolder[Async] calls made on the descriptor.
MaxCalls == 3

-----------------------------------------------------------------------------
(* JavaScript values and strings *)

Undefined == [t |-> "undefined", s |-> <<>>]

Str(s) == [t |-> "string", s |-> s]

\* JavaScript truthiness of a value: undefined and "" are falsy.
Truthy(v) == v.t = "string" /\ v.s # <<>>

\* JSON.stringify(v); concatenated to a string, undefined prints as "undefined".
JSONstringify(v) ==
    IF v.t = "undefined" THEN <<"undefined">> ELSE <<"\"">> \o v.s \o <<"\"">>

LowerChars ==
    {"a","b","c","d","e","f","g","h","i","j","k","l","m",
     "n","o","p","q","r","s","t","u","v","w","x","y","z"}

UpperChars ==
    {"A","B","C","D","E","F","G","H","I","J","K","L","M",
     "N","O","P","Q","R","S","T","U","V","W","X","Y","Z"}

DigitChars == {"0","1","2","3","4","5","6","7","8","9"}

\* The character class [A-Za-z0-9\-_\.]
PackageNameChars == LowerChars \cup UpperChars \cup DigitChars \cup {"-", "_", "."}

\* The character class [a-z0-9_\.]
ProfileNameChars == LowerChars \cup DigitChars \cup {"_", "."}

\* [class]+ : a non-empty run of characters of the class
Word(s, class) == Len(s) > 0 /\ \A i \in 1..Len(s) : s[i] \in class

EndsWith(s, suffix) ==
    /\ Len(s) >= Len(suffix)
    /\ SubSeq(s, Len(s) - Len(suffix) + 1, Len(s)) = suffix

\* /^(@[A-Za-z0-9\-_\.]+\/)?[A-Za-z0-9\-_\.]+$/
packageNameRegExp(s) ==
    \/ Word(s, PackageNameChars)
    \/ /\ Len(s) > 0
       /\ s[1] = "@"
       /\ \E i \in 2..Len(s) :
            /\ s[i] = "/"
            /\ Word(SubSeq(s, 2, i - 1), PackageNameChars)
            /\ Word(SubSeq(s, i + 1, Len(s)), PackageNameChars)

\* Mutant: the suffix test accepts every name
rigNameRegExp_AnySuffix(s) == TRUE

\* /-rig(-test)?$/
rigNameRegExp(s) ==
    \/ EndsWith(s, <<"-","r","i","g">>)
    \/ EndsWith(s, <<"-","r","i","g","-","t","e","s","t">>)

\* ([class]+ "-")* [class]+ matched from position i of s to its end
RECURSIVE HyphenatedWords(_, _)
HyphenatedWords(s, i) ==
    \E j \in i..Len(s) :
        /\ Word(SubSeq(s, i, j), ProfileNameChars)
        /\ \/ j = Len(s)
           \/ /\ j + 1 < Len(s)
              /\ s[j + 1] = "-"
              /\ HyphenatedWords(s, j + 2)

\* /^[a-z0-9_\.]+(\-[a-z0-9_\.]+)*$/
profileNameRegExp(s) == HyphenatedWords(s, 1)

-----------------------------------------------------------------------------
(* Completions of a call: it throws an Error with a message or returns a value *)

Throw(message) == [kind |-> "throw", message |-> message]

Return(value) == [kind |-> "return", value |-> value]

-----------------------------------------------------------------------------
(* The functions of the path module that the code uses *)

\* s.split(sep)
RECURSIVE Split(_, _)
Split(s, sep) ==
    IF \A i \in 1..Len(s) : s[i] # sep
    THEN <<s>>
    ELSE LET i == CHOOSE k \in 1..Len(s) :
                      s[k] = sep /\ \A j \in 1..(k - 1) : s[j] # sep
         IN  <<SubSeq(s, 1, i - 1)>> \o Split(SubSeq(s, i + 1, Len(s)), sep)

\* segments.join('/')
RECURSIVE JoinSegments(_)
JoinSegments(segs) ==
    IF segs = <<>> THEN <<>>
    ELSE IF Len(segs) = 1 THEN segs[1]
    ELSE segs[1] \o <<"/">> \o JoinSegments(Tail(segs))

\* Drops empty and "." segments and resolves ".." against the segment before it.
RECURSIVE NormalizeSegments(_, _, _)
NormalizeSegments(segs, out, absolute) ==
    IF segs = <<>> THEN out
    ELSE LET h == Head(segs)
             t == Tail(segs)
         IN  IF h = <<>> \/ h = <<".">>
             THEN NormalizeSegments(t, out, absolute)
             ELSE IF h = <<".", ".">>
             THEN IF out # <<>> /\ out[Len(out)] # <<".", ".">>
                  THEN NormalizeSegments(t, SubSeq(out, 1, Len(out) - 1), absolute)
                  ELSE IF absolute
                  THEN NormalizeSegments(t, out, absolute)
                  ELSE NormalizeSegments(t, Append(out, h), absolute)
             ELSE NormalizeSegments(t, Append(out, h), absolute)

\* path.normalize(p), POSIX
pathNormalize(p) ==
    LET absolute == Len(p) > 0 /\ p[1] = "/"
        trailing == Len(p) > 0 /\ p[Len(p)] = "/"
        body     == JoinSegments(NormalizeSegments(Split(p, "/"), <<>>, absolute))
        tail     == IF body # <<>> /\ trailing THEN body \o <<"/">> ELSE body
    IN  IF absolute THEN <<"/">> \o tail
        ELSE IF tail = <<>> THEN <<".">> ELSE tail

\* path.join(a, b), POSIX
pathJoin(a, b) ==
    IF a = <<>> /\ b = <<>> THEN <<".">>
    ELSE IF a = <<>> THEN pathNormalize(b)
    ELSE IF b = <<>> THEN pathNormalize(a)
    ELSE pathNormalize(a \o <<"/">> \o b)

\* path.dirname(p), POSIX, of a path without a trailing slash
pathDirname(p) ==
    IF \A i \in 1..Len(p) : p[i] # "/" THEN <<".">>
    ELSE LET i == CHOOSE k \in 1..Len(p) :
                      p[k] = "/" /\ \A j \in (k + 1)..Len(p) : p[j] # "/"
         IN  IF i = 1 THEN <<"/">> ELSE SubSeq(p, 1, i - 1)

-----------------------------------------------------------------------------
(* The contents of config/rig.json: IRigConfigJson *)

\* A parsed JSON object is the sequence of its own properties, in their order.
Property(key, value) == [key |-> key, value |-> value]

Key_schema == <<"$schema">>
Key_rigPackageName == <<"rigPackageName">>
Key_rigProfile == <<"rigProfile">>

\* Object.getOwnPropertyNames(json)
OwnPropertyNames(json) == [i \in 1..Len(json) |-> json[i].key]

\* json[key]: the value of the property, undefined when there is none
Get(json, key) ==
    IF \E i \in 1..Len(json) : json[i].key = key
    THEN json[CHOOSE i \in 1..Len(json) : json[i].key = key].value
    ELSE Undefined

\* Mutant: a truthiness test, if (json.rigProfile)
ProfileSpecified_Truthy(rigProfile) == Truthy(rigProfile)

\* json.rigProfile !== undefined
ProfileSpecified(rigProfile) == rigProfile # Undefined

\* RigConfig._validateSchema(json): throws, or returns undefined
validateSchema(json) ==
    LET names       == OwnPropertyNames(json)
        Supported   == {Key_schema, Key_rigPackageName, Key_rigProfile}
        unsupported == {i \in 1..Len(names) : names[i] \notin Supported}
        rigPackageName == Get(json, Key_rigPackageName)
        rigProfile     == Get(json, Key_rigProfile)
    IN  IF unsupported # {}
        THEN LET first == CHOOSE i \in unsupported : \A j \in unsupported : i <= j
             IN  Throw(<<"Unsupported field ">> \o JSONstringify(Str(names[first])))
        ELSE IF ~Truthy(rigPackageName)
        THEN Throw(<<"Missing required field ", "\"", "rigPackageName", "\"">>)
        ELSE IF ~packageNameRegExp(rigPackageName.s)
        THEN Throw(<<"The ", "\"", "rigPackageName", "\"",
                     " value is not a valid NPM package name: ">>
                   \o JSONstringify(rigPackageName))
        ELSE IF ~rigNameRegExp(rigPackageName.s)
        THEN Throw(<<"The ", "\"", "rigPackageName", "\"",
                     " value is missing the ", "\"", "-rig", "\"", " suffix: ">>
                   \o JSONstringify(rigProfile))
        ELSE IF ProfileSpecified(rigProfile) /\ ~profileNameRegExp(rigProfile.s)
        THEN Throw(<<"The profile name must consist of lowercase alphanumeric words separated by hyphens: ">>
                   \o JSONstringify(rigProfile))
        ELSE Return(Undefined)

-----------------------------------------------------------------------------
(* The descriptor: class RigConfig *)

\* new RigConfig(options)
RigConfig(options) ==
    [projectFolderPath |-> options.projectFolderPath,
     rigFound          |-> options.rigFound,
     filePath          |-> options.filePath,
     rigPackageName    |-> options.rigPackageName,
     rigProfile        |-> options.rigProfile,
     relativeProfileFolderPath |->
         IF options.rigFound
         THEN <<"profiles", "/">> \o options.rigProfile
         ELSE <<>>]

\* Mutant: the not-found descriptor keeps the path that was probed
NotFoundRigConfig_WithFilePath(options) ==
    RigConfig([projectFolderPath |-> options.projectFolderPath,
               rigFound          |-> FALSE,
               filePath          |-> options.projectFolderPath,
               rigPackageName    |-> <<>>,
               rigProfile        |-> <<>>])

\* new RigConfig({ rigFound: false, ... }), as both load variants build it
NotFoundRigConfig(options) ==
    RigConfig([projectFolderPath |-> options.projectFolderPath,
               rigFound          |-> FALSE,
               filePath          |-> <<>>,
               rigPackageName    |-> <<>>,
               rigProfile        |-> <<>>])

\* json.rigProfile || 'default'
ProfileOrDefault(json) ==
    IF Truthy(Get(json, Key_rigProfile))
    THEN Get(json, Key_rigProfile).s
    ELSE <<"d","e","f","a","u","l","t">>

\* new RigConfig({ rigFound: true, ... }), as both load variants build it
FoundRigConfig(options, rigConfigFilePath, json) ==
    RigConfig([projectFolderPath |-> options.projectFolderPath,
               rigFound          |-> TRUE,
               filePath          |-> rigConfigFilePath,
               rigPackageName    |-> Get(json, Key_rigPackageName).s,
               rigProfile        |-> ProfileOrDefault(json)])

\* path.join(options.projectFolderPath, 'config/rig.json')
RigConfigFilePath(options) ==
    pathJoin(options.projectFolderPath, <<"config", "/", "rig.json">>)

\* Mutant: the error is rethrown as it is
LoadError_NoNote(error, rigConfigFilePath) == Throw(error.message)

\* new Error(error.message + '\nError loading config file: ' + rigConfigFilePath)
LoadError(error, rigConfigFilePath) ==
    Throw(error.message \o <<"\nError loading config file: ">> \o rigConfigFilePath)

-----------------------------------------------------------------------------
(* The file config/rig.json on disk, as the fs module shows it.  state is  *)
(* "absent", "unreadable" (it exists and reading it fails), "malformed"    *)
(* (its text does not parse) or "json" (its text parses to the object      *)
(* json).                                                                  *)

File(state, json) == [state |-> state, json |-> json]

\* fs.existsSync(rigConfigFilePath), fs.exists(rigConfigFilePath, callback)
fsExistsRigJson(file) == file.state # "absent"

\* fs.readFileSync(rigConfigFilePath).toString(): the text, here the file itself
fsReadRigJson(file) ==
    IF file.state = "unreadable"
    THEN Throw(<<"EISDIR: illegal operation on a directory, read">>)
    ELSE Return(file)

\* JSON.parse(stripJsonComments(rigConfigFileContent))
JSONparse(content) ==
    IF content.state = "malformed"
    THEN Throw(<<"Unexpected end of JSON input">>)
    ELSE Return(content.json)

\* RigConfig.loadForProjectFolder(options)
loadForProjectFolder(options, file) ==
    LET rigConfigFilePath == RigConfigFilePath(options)
        read   == fsReadRigJson(file)
        parsed == JSONparse(read.value)
    IN  IF options.override
        THEN IF validateSchema(options.overrideRigJsonObject).kind = "throw"
             THEN LoadError(validateSchema(options.overrideRigJsonObject), rigConfigFilePath)
             ELSE Return(FoundRigConfig(options, rigConfigFilePath,
                                        options.overrideRigJsonObject))
        ELSE IF ~fsExistsRigJson(file)
        THEN Return(NotFoundRigConfig(options))
        ELSE IF read.kind = "throw"
        THEN LoadError(read, rigConfigFilePath)
        ELSE IF parsed.kind = "throw"
        THEN LoadError(parsed, rigConfigFilePath)
        ELSE IF validateSchema(parsed.value).kind = "throw"
        THEN LoadError(validateSchema(parsed.value), rigConfigFilePath)
        ELSE Return(FoundRigConfig(options, rigConfigFilePath, parsed.value))

-----------------------------------------------------------------------------
(* The inputs of the load calls *)

ProjectFolderPaths == { <<"/", "proj">>, <<"/", "w", "/", "app">> }

RigPackageNameValues ==
    { Undefined,
      Str(<<>>),
      Str(<<"a","-","r","i","g">>),
      Str(<<"@","s","/","b","-","r","i","g","-","t","e","s","t">>),
      Str(<<"l","i","b">>),
      Str(<<"a","!","-","r","i","g">>) }

RigProfileValues ==
    { Undefined,
      Str(<<>>),
      Str(<<"n","-","l">>),
      Str(<<"B","a","d">>),
      Str(<<"a","-">>) }

OtherKeys == {"none", "schema", "unsupportedFirst", "unsupportedLast"}

\* The object { [$schema], [extraField], [rigPackageName], [rigProfile], [extraField] }
JsonObject(other, rigPackageName, rigProfile) ==
       (IF other = "schema"
        THEN <<Property(Key_schema, Str(<<"rig.schema.json">>))>> ELSE <<>>)
    \o (IF other = "unsupportedFirst"
        THEN <<Property(<<"extraField">>, Str(<<"1">>))>> ELSE <<>>)
    \o (IF rigPackageName # Undefined
        THEN <<Property(Key_rigPackageName, rigPackageName)>> ELSE <<>>)
    \o (IF rigProfile # Undefined
        THEN <<Property(Key_rigProfile, rigProfile)>> ELSE <<>>)
    \o (IF other = "unsupportedLast"
        THEN <<Property(<<"extraField">>, Str(<<"1">>))>> ELSE <<>>)

JsonObjects ==
    { JsonObject(o, n, p) : o \in OtherKeys, n \in RigPackageNameValues, p \in RigProfileValues }

Files ==
    { File("absent", <<>>), File("unreadable", <<>>), File("malformed", <<>>) }
    \cup { File("json", j) : j \in JsonObjects }

\* The files tried together with an override object
FilesUnderOverride ==
    { File("absent", <<>>), File("malformed", <<>>),
      File("json", JsonObject("none", Str(<<"a","-","r","i","g">>), Str(<<"n","-","l">>))) }

\* ILoadForProjectFolderOptions
Options(projectFolderPath, override, json) ==
    [projectFolderPath |-> projectFolderPath,
     override |-> override,
     overrideRigJsonObject |-> json]

Pending == [kind |-> "pending"]

-----------------------------------------------------------------------------
VARIABLES
    options,        \* the options of the load calls
    file,           \* config/rig.json on disk
    syncResult,     \* completion of loadForProjectFolder(options)
    asyncPc,        \* where loadForProjectFolderAsync(options) is
    asyncResult,    \* completion of loadForProjectFolderAsync(options)
    installed,      \* whether the rig package is installed under the project folder
    profilesOnDisk, \* the names of the folders under profiles/ of the rig package
    resolvedRigPackageFolder,   \* this._resolvedRigPackageFolder
    resolvedProfileFolder,      \* this._resolvedProfileFolder
    calls,          \* the getResolvedProfileFolder[Async] calls on the descriptor
    packageFolderWrites,    \* the values assigned to this._resolvedRigPackageFolder, in order
    profileFolderWrites     \* the values assigned to this._resolvedProfileFolder, in order

loadVars == <<options, file, syncResult, asyncPc, asyncResult>>

envVars == <<installed, profilesOnDisk>>

resolveVars == <<resolvedRigPackageFolder, resolvedProfileFolder, calls,
                 packageFolderWrites, profileFolderWrites>>

vars == <<loadVars, envVars, resolveVars>>

CallIds == 1..MaxCalls

\* A call that was not made yet
NoCall ==
    [pc |-> "idle", async |-> FALSE, result |-> Pending,
     lookups |-> 0, checks |-> 0, afterSuccess |-> FALSE, during |-> {}]

\* The descriptor just constructed: nothing resolved, no call made
ResolveInit ==
    /\ resolvedRigPackageFolder = Undefined
    /\ resolvedProfileFolder = Undefined
    /\ calls = [c \in CallIds |-> NoCall]
    /\ packageFolderWrites = <<>>
    /\ profileFolderWrites = <<>>

-----------------------------------------------------------------------------
(* Loading: loadForProjectFolder and loadForProjectFolderAsync on one input *)

LoadInit ==
    /\ \E f \in ProjectFolderPaths :
         \/ /\ options = Options(f, FALSE, <<>>)
            /\ file \in Files
         \/ /\ \E j \in JsonObjects : options = Options(f, TRUE, j)
            /\ file \in FilesUnderOverride
    /\ syncResult = Pending
    /\ asyncPc = "idle"
    /\ asyncResult = Pending
    /\ installed = TRUE
    /\ profilesOnDisk = {}
    /\ ResolveInit

\* A call of loadForProjectFolder(options)
LoadForProjectFolder ==
    /\ syncResult = Pending
    /\ syncResult' = loadForProjectFolder(options, file)
    /\ UNCHANGED <<options, file, asyncPc, asyncResult, envVars, resolveVars>>

\* A call of loadForProjectFolderAsync(options), up to its first await
LoadForProjectFolderAsync ==
    /\ asyncPc = "idle"
    /\ IF options.override
       THEN /\ asyncPc' = "done"
            /\ asyncResult' =
                 IF validateSchema(options.overrideRigJsonObject).kind = "throw"
                 THEN LoadError(validateSchema(options.overrideRigJsonObject),
                                RigConfigFilePath(options))
                 ELSE Return(FoundRigConfig(options, RigConfigFilePath(options),
                                            options.overrideRigJsonObject))
       ELSE /\ asyncPc' = "fsExists"
            /\ UNCHANGED asyncResult
    /\ UNCHANGED <<options, file, syncResult, envVars, resolveVars>>

\* Mutant: the async variant goes on to read a file that does not exist
LoadAsyncExists_NoEarlyReturn ==
    /\ asyncPc = "fsExists"
    /\ asyncPc' = "readFile"
    /\ UNCHANGED asyncResult
    /\ UNCHANGED <<options, file, syncResult, envVars, resolveVars>>

\* await RigConfig._fsExistsAsync(rigConfigFilePath) completes
LoadAsyncExists ==
    /\ asyncPc = "fsExists"
    /\ IF ~fsExistsRigJson(file)
       THEN /\ asyncPc' = "done"
            /\ asyncResult' = Return(NotFoundRigConfig(options))
       ELSE /\ asyncPc' = "readFile"
            /\ UNCHANGED asyncResult
    /\ UNCHANGED <<options, file, syncResult, envVars, resolveVars>>

\* await fs.promises.readFile(rigConfigFilePath) completes
LoadAsyncReadFile ==
    /\ asyncPc = "readFile"
    /\ asyncPc' = "done"
    /\ LET read   == fsReadRigJson(file)
           parsed == JSONparse(read.value)
       IN  asyncResult' =
             IF read.kind = "throw"
             THEN LoadError(read, RigConfigFilePath(options))
             ELSE IF parsed.kind = "throw"
             THEN LoadError(parsed, RigConfigFilePath(options))
             ELSE IF validateSchema(parsed.value).kind = "throw"
             THEN LoadError(validateSchema(parsed.value), RigConfigFilePath(options))
             ELSE Return(FoundRigConfig(options, RigConfigFilePath(options), parsed.value))
    /\ UNCHANGED <<options, file, syncResult, envVars, resolveVars>>

LoadNext ==
    \/ LoadForProjectFolder
    \/ LoadForProjectFolderAsync
    \/ LoadAsyncExists
    \/ LoadAsyncReadFile

LoadSpec == LoadInit /\ [][LoadNext]_vars

-----------------------------------------------------------------------------
(* Resolving: getResolvedProfileFolder[Async] on the descriptor that       *)
(* loadForProjectFolder returned                                           *)

\* The descriptor the resolve calls are made on
this == syncResult.value

\* The folder the rig package of the descriptor is installed in, if it is
InstalledRigPackageFolder ==
    pathJoin(this.projectFolderPath, <<"node_modules", "/">> \o this.rigPackageName)

\* The folders on disk in and under the rig package
FoldersOnDisk ==
    IF installed
    THEN {InstalledRigPackageFolder}
         \cup {pathJoin(InstalledRigPackageFolder, <<"profiles">>) : p \in profilesOnDisk}
         \cup {pathJoin(InstalledRigPackageFolder, <<"profiles", "/">> \o p) : p \in profilesOnDisk}
    ELSE {}

\* fs.existsSync(path), fs.exists(path, callback)
fsExists(path) == path \in FoldersOnDisk

\* nodeResolve.sync(id, { basedir }), nodeResolve(id, { basedir }, callback)
nodeResolve(id, basedir) ==
    IF installed
    THEN Return(pathJoin(basedir, <<"node_modules", "/">> \o id))
    ELSE Throw(<<"Cannot find module '">> \o id \o <<"' from '">> \o basedir \o <<"'">>)

\* `${this.rigPackageName}/package.json`
RigPackageJsonModuleSpecifier == this.rigPackageName \o <<"/", "package.json">>

NoRigError ==
    Throw(<<"Cannot resolve the rig package because no rig was specified for this project">>)

ProfileNotDefinedError ==
    Throw(<<"The rig profile ", "\"">> \o this.rigProfile
          \o <<"\"", " is not defined by the rig package ", "\"">>
          \o this.rigPackageName \o <<"\"">>)

\* Mutant: the package folder is resolved by every call
MustResolvePackage_Always == TRUE

\* this._resolvedRigPackageFolder === undefined
MustResolvePackage == resolvedRigPackageFolder = Undefined

\* Mutant: the profile folder is computed by every call
MustResolveProfile_Always == TRUE

\* this._resolvedProfileFolder === undefined
MustResolveProfile == resolvedProfileFolder = Undefined

\* The calls that wait at an await
InFlight == {d \in CallIds : calls[d].pc \in {"nodeResolve", "fsExists"}}

\* Call c is the next one to be made
CanCall(c) ==
    /\ syncResult.kind = "return"
    /\ calls[c].pc = "idle"
    /\ \A d \in CallIds : d < c => calls[d].pc # "idle"

\* The record of call c as it begins
Begin(c, async) ==
    [calls[c] EXCEPT
        !.async = async,
        !.afterSuccess = \E d \in CallIds :
                            calls[d].pc = "done" /\ calls[d].result.kind = "return",
        !.during = InFlight]

\* A call of this.getResolvedProfileFolder()
GetResolvedProfileFolder(c) ==
    /\ CanCall(c)
    /\ LET mustResolve == MustResolvePackage
           resolved    == nodeResolve(RigPackageJsonModuleSpecifier, this.projectFolderPath)
           threw       == mustResolve /\ (~this.rigFound \/ resolved.kind = "throw")
           assignsPackage == mustResolve /\ ~threw
           packageFolder  == IF assignsPackage
                             THEN Str(pathDirname(resolved.value))
                             ELSE resolvedRigPackageFolder
           assignsProfile == ~threw /\ MustResolveProfile
           profileFolder  == IF assignsProfile
                             THEN Str(pathJoin(packageFolder.s, this.relativeProfileFolderPath))
                             ELSE resolvedProfileFolder
           result ==
               IF mustResolve /\ ~this.rigFound THEN NoRigError
               ELSE IF threw THEN resolved
               ELSE IF assignsProfile /\ ~fsExists(profileFolder.s) THEN ProfileNotDefinedError
               ELSE Return(profileFolder.s)
       IN  /\ resolvedRigPackageFolder' = packageFolder
           /\ resolvedProfileFolder' = profileFolder
           /\ packageFolderWrites' = IF assignsPackage
                                     THEN Append(packageFolderWrites, packageFolder)
                                     ELSE packageFolderWrites
           /\ profileFolderWrites' = IF assignsProfile
                                     THEN Append(profileFolderWrites, profileFolder)
                                     ELSE profileFolderWrites
           /\ calls' = [calls EXCEPT ![c] =
                 [Begin(c, FALSE) EXCEPT
                     !.pc = "done",
                     !.result = result,
                     !.lookups = IF mustResolve /\ this.rigFound THEN 1 ELSE 0,
                     !.checks = IF assignsProfile THEN 1 ELSE 0]]
    /\ UNCHANGED <<loadVars, envVars>>

\* Lines 326-337 of getResolvedProfileFolderAsync up to the await, run by call
\* record call: the profile folder is assigned and its check awaited, or the
\* memoized profile folder is returned
AsyncProfileStep(c, call) ==
    IF MustResolveProfile
    THEN /\ resolvedProfileFolder' =
              Str(pathJoin(resolvedRigPackageFolder'.s, this.relativeProfileFolderPath))
         /\ profileFolderWrites' = Append(profileFolderWrites, resolvedProfileFolder')
         /\ calls' = [calls EXCEPT ![c] =
               [call EXCEPT !.pc = "fsExists", !.checks = @ + 1]]
    ELSE /\ UNCHANGED <<resolvedProfileFolder, profileFolderWrites>>
         /\ calls' = [calls EXCEPT ![c] =
               [call EXCEPT !.pc = "done", !.result = Return(resolvedProfileFolder.s)]]

\* A call of this.getResolvedProfileFolderAsync(), up to its first await
GetResolvedProfileFolderAsync(c) ==
    /\ CanCall(c)
    /\ IF MustResolvePackage
       THEN /\ calls' = [calls EXCEPT ![c] =
                 IF ~this.rigFound
                 THEN [Begin(c, TRUE) EXCEPT !.pc = "done", !.result = NoRigError]
                 ELSE [Begin(c, TRUE) EXCEPT !.pc = "nodeResolve", !.lookups = 1]]
            /\ UNCHANGED <<resolvedRigPackageFolder, resolvedProfileFolder,
                           packageFolderWrites, profileFolderWrites>>
       ELSE /\ UNCHANGED <<resolvedRigPackageFolder, packageFolderWrites>>
            /\ AsyncProfileStep(c, Begin(c, TRUE))
    /\ UNCHANGED <<loadVars, envVars>>

\* await RigConfig._nodeResolveAsync(...) completes in call c
AsyncNodeResolved(c) ==
    /\ calls[c].pc = "nodeResolve"
    /\ LET resolved == nodeResolve(RigPackageJsonModuleSpecifier, this.projectFolderPath)
       IN  IF resolved.kind = "throw"
           THEN /\ calls' = [calls EXCEPT ![c].pc = "done", ![c].result = resolved]
                /\ UNCHANGED <<resolvedRigPackageFolder, resolvedProfileFolder,
                               packageFolderWrites, profileFolderWrites>>
           ELSE /\ resolvedRigPackageFolder' = Str(pathDirname(resolved.value))
                /\ packageFolderWrites' = Append(packageFolderWrites, resolvedRigPackageFolder')
                /\ AsyncProfileStep(c, calls[c])
    /\ UNCHANGED <<loadVars, envVars>>

\* await RigConfig._fsExistsAsync(this._resolvedProfileFolder) completes in call c
AsyncExistsChecked(c) ==
    /\ calls[c].pc = "fsExists"
    /\ calls' = [calls EXCEPT
                   ![c].pc = "done",
                   ![c].result = IF ~fsExists(resolvedProfileFolder.s)
                                 THEN ProfileNotDefinedError
                                 ELSE Return(resolvedProfileFolder.s)]
    /\ UNCHANGED <<resolvedRigPackageFolder, resolvedProfileFolder,
                   packageFolderWrites, profileFolderWrites>>
    /\ UNCHANGED <<loadVars, envVars>>

\* The inputs whose descriptors the resolve calls are made on
ResolveFiles ==
    { File("absent", <<>>),
      File("json", JsonObject("none", Str(<<"a","-","r","i","g">>), Undefined)),
      File("json", JsonObject("schema",
               Str(<<"@","s","/","b","-","r","i","g","-","t","e","s","t">>),
               Str(<<"n","-","l">>))) }

ProfileFolderNames == { <<"d","e","f","a","u","l","t">>, <<"n","-","l">> }

\* loadForProjectFolder(options) has returned a descriptor
ResolveSpecInit ==
    /\ \E f \in ProjectFolderPaths : options = Options(f, FALSE, <<>>)
    /\ file \in ResolveFiles
    /\ syncResult = loadForProjectFolder(options, file)
    /\ asyncPc = "idle"
    /\ asyncResult = Pending
    /\ installed \in BOOLEAN
    /\ profilesOnDisk \in SUBSET ProfileFolderNames
    /\ installed = FALSE => profilesOnDisk = {}
    /\ ResolveInit

ResolveNext ==
    \/ \E c \in CallIds : GetResolvedProfileFolder(c)
    \/ \E c \in CallIds : GetResolvedProfileFolderAsync(c)
    \/ \E c \in CallIds : AsyncNodeResolved(c)
    \/ \E c \in CallIds : AsyncExistsChecked(c)

ResolveSpec == ResolveSpecInit /\ [][ResolveNext]_vars

-----------------------------------------------------------------------------
(* The grammars and texts as the specification states them *)

Contains(s, sub) ==
    \E i \in 1..(Len(s) - Len(sub) + 1) : SubSeq(s, i, i + Len(sub) - 1) = sub

NameLetters == PackageNameChars

\* an optional scope @<scope>/ and a name, each of letters, digits, - _ and .
IsPackageName(s) ==
    LET segs == Split(s, "/")
    IN  \/ Len(segs) = 1 /\ Word(segs[1], NameLetters)
        \/ /\ Len(segs) = 2
           /\ Len(segs[1]) > 1
           /\ segs[1][1] = "@"
           /\ Word(Tail(segs[1]), NameLetters)
           /\ Word(segs[2], NameLetters)

HasRigSuffix(s) ==
    \/ Len(s) >= 4 /\ SubSeq(s, Len(s) - 3, Len(s)) = <<"-","r","i","g">>
    \/ Len(s) >= 9 /\ SubSeq(s, Len(s) - 8, Len(s)) = <<"-","r","i","g","-","t","e","s","t">>

\* words of lowercase letters, digits, _ and . separated by single hyphens
IsProfileName(s) ==
    /\ Len(s) > 0
    /\ \A i \in 1..Len(s) : s[i] \in ProfileNameChars \cup {"-"}
    /\ s[1] # "-"
    /\ s[Len(s)] # "-"
    /\ \A i \in 1..(Len(s) - 1) : ~(s[i] = "-" /\ s[i + 1] = "-")

DefaultProfile == <<"d","e","f","a","u","l","t">>

\* <projectFolderPath>/config/rig.json
ConfigRigJson == options.projectFolderPath \o <<"/", "config", "/", "rig.json">>

FileNote == <<"\nError loading config file: ">> \o ConfigRigJson

\* The completions of the load calls that have finished
LoadResults ==
    (IF syncResult # Pending THEN {syncResult} ELSE {})
    \cup (IF asyncResult # Pending THEN {asyncResult} ELSE {})

BothLoaded == syncResult # Pending /\ asyncResult # Pending

\* A configuration object reaches validation: the override or the parsed file
HasJson == options.override \/ file.state = "json"

TheJson == IF options.override THEN options.overrideRigJsonObject ELSE file.json

UnsupportedKeys ==
    {TheJson[i].key : i \in 1..Len(TheJson)}
    \ {Key_schema, Key_rigPackageName, Key_rigProfile}

JsonPackageName == Get(TheJson, Key_rigPackageName)

JsonProfile == Get(TheJson, Key_rigProfile)

\* The object has only supported keys and a valid rig package name
PackageNameIsValid ==
    /\ HasJson
    /\ UnsupportedKeys = {}
    /\ JsonPackageName # Undefined
    /\ IsPackageName(JsonPackageName.s)
    /\ HasRigSuffix(JsonPackageName.s)

-----------------------------------------------------------------------------
\* C3: for every input, loadForProjectFolder and loadForProjectFolderAsync end
\* the same way: descriptors equal in every field, or errors with the same message.
C3_SyncAsyncLoadAgree == BothLoaded => syncResult = asyncResult

\* Both variants have returned a found descriptor read from the file on disk.
C3_Witness ==
    /\ BothLoaded
    /\ ~options.override
    /\ asyncResult.kind = "return"
    /\ asyncResult.value.rigFound

\* C4: a returned descriptor with rigFound has a non-empty package name of the
\* package-name grammar that ends with -rig or -rig-test, a profile name of the
\* profile grammar ("default" when the key is absent), and the relative path
\* "profiles/" + profile name.
C4_FoundDescriptorIsValid ==
    \A r \in LoadResults :
        (r.kind = "return" /\ r.value.rigFound) =>
            /\ r.value.rigPackageName # <<>>
            /\ IsPackageName(r.value.rigPackageName)
            /\ HasRigSuffix(r.value.rigPackageName)
            /\ IsProfileName(r.value.rigProfile)
            /\ (JsonProfile = Undefined => r.value.rigProfile = DefaultProfile)
            /\ r.value.relativeProfileFolderPath = <<"profiles", "/">> \o r.value.rigProfile

\* Both variants have returned a found descriptor with the default profile.
C4_Witness ==
    /\ BothLoaded
    /\ syncResult.kind = "return"
    /\ syncResult.value.rigFound
    /\ JsonProfile = Undefined
    /\ asyncResult.kind = "return"

\* C5: without an override and without config/rig.json the load returns, with
\* no error, a descriptor with rigFound false and the four strings empty; and
\* no returned descriptor has rigFound false and one of the four non-empty.
C5_NotFoundDescriptorIsEmpty ==
    \A r \in LoadResults :
        /\ (~options.override /\ file.state = "absent") =>
              (r.kind = "return" /\ ~r.value.rigFound)
        /\ (r.kind = "return" /\ ~r.value.rigFound) =>
              /\ r.value.filePath = <<>>
              /\ r.value.rigPackageName = <<>>
              /\ r.value.rigProfile = <<>>
              /\ r.value.relativeProfileFolderPath = <<>>

\* Both variants have finished on a project folder without config/rig.json.
C5_Witness ==
    /\ BothLoaded
    /\ ~options.override
    /\ file.state = "absent"

\* C6: the message of every validation failure carries the offending field or
\* value: the unsupported key, the missing field's name, the malformed package
\* name, the package name that lacks the suffix, the malformed profile name.
C6_ValidationErrorNamesOffender ==
    \A r \in LoadResults :
        (HasJson /\ r.kind = "throw") =>
            IF UnsupportedKeys # {}
            THEN \E k \in UnsupportedKeys : Contains(r.message, k)
            ELSE IF JsonPackageName = Undefined \/ JsonPackageName.s = <<>>
            THEN Contains(r.message, Key_rigPackageName)
            ELSE IF ~IsPackageName(JsonPackageName.s) \/ ~HasRigSuffix(JsonPackageName.s)
            THEN Contains(r.message, JsonPackageName.s)
            ELSE Contains(r.message, JsonProfile.s)

\* The error that the load raises for the input, before it is wrapped
UnderlyingError ==
    IF options.override THEN validateSchema(options.overrideRigJsonObject)
    ELSE IF file.state = "unreadable" THEN fsReadRigJson(file)
    ELSE IF file.state = "malformed" THEN JSONparse(file)
    ELSE validateSchema(file.json)

\* The input makes the load fail
LoadFails ==
    /\ options.override \/ file.state # "absent"
    /\ UnderlyingError.kind = "throw"

\* C7: every failure of a load call (read, parse or validation, also with an
\* override) reaches the caller as an error whose message is the underlying
\* message followed by the note naming <projectFolderPath>/config/rig.json.
C7_LoadFailureCarriesFileNote ==
    \A r \in LoadResults :
        /\ LoadFails => (r.kind = "throw" /\ r.message = UnderlyingError.message \o FileNote)
        /\ r.kind = "throw" => (LoadFails /\ EndsWith(r.message, FileNote))

\* Both variants have failed on an override object that does not validate.
C7_Witness ==
    /\ BothLoaded
    /\ options.override
    /\ syncResult.kind = "throw"
    /\ asyncResult.kind = "throw"

\* C10 as stated: an object with a valid package name and rigProfile "" loads
\* as if rigProfile were absent, giving the profile "default".
C10_EmptyProfileLoadsAsDefault ==
    (PackageNameIsValid /\ JsonProfile = Str(<<>>) /\ syncResult # Pending) =>
        /\ syncResult.kind = "return"
        /\ syncResult.value.rigProfile = DefaultProfile
        /\ syncResult.value.relativeProfileFolderPath = <<"profiles", "/">> \o DefaultProfile

\* C10 amended: an object with a valid package name and rigProfile "" is
\* rejected with the profile-name error reporting the value ""; the profile
\* "default" is what an absent rigProfile gives.
C10_EmptyProfileIsRejected ==
    (PackageNameIsValid /\ syncResult # Pending) =>
        /\ JsonProfile = Str(<<>>) =>
              /\ syncResult.kind = "throw"
              /\ Contains(syncResult.message, <<"The profile name must consist of lowercase alphanumeric words separated by hyphens: ", "\"", "\"">>)
              /\ EndsWith(syncResult.message, FileNote)
        /\ JsonProfile = Undefined =>
              /\ syncResult.kind = "return"
              /\ syncResult.value.rigProfile = DefaultProfile
              /\ syncResult.value.relativeProfileFolderPath = <<"profiles", "/">> \o DefaultProfile

\* loadForProjectFolder has finished on an object with rigProfile "".
C10_Witness ==
    /\ PackageNameIsValid
    /\ JsonProfile = Str(<<>>)
    /\ syncResult # Pending

-----------------------------------------------------------------------------
(* The resolve calls as the specification states them *)

Done(c) == calls[c].pc = "done"

Returned(c) == Done(c) /\ calls[c].result.kind = "return"

\* <packageFolder>/profiles/<profileName> of the descriptor
ProfileFolderOfRig ==
    this.projectFolderPath \o <<"/", "node_modules", "/">> \o this.rigPackageName
    \o <<"/", "profiles", "/">> \o this.rigProfile

\* The rig package resolves and has no folder for the profile
ProfileFolderMissing ==
    /\ this.rigFound
    /\ installed
    /\ this.rigProfile \notin profilesOnDisk

\* What one call alone ends with on a found descriptor and this disk
SingleCallOutcome ==
    IF ~installed
    THEN Throw(<<"Cannot find module '">> \o this.rigPackageName
               \o <<"/", "package.json", "' from '">> \o this.projectFolderPath \o <<"'">>)
    ELSE IF this.rigProfile \in profilesOnDisk
    THEN Return(ProfileFolderOfRig)
    ELSE ProfileNotDefinedError

\* Package lookups and existence checks done by all calls so far
RECURSIVE Sum(_, _)
Sum(field, n) == IF n = 0 THEN 0 ELSE calls[n][field] + Sum(field, n - 1)

TotalLookups == Sum("lookups", MaxCalls)

TotalChecks == Sum("checks", MaxCalls)

\* The calls so far were made one after the other and all returned
SuccessfulSequence ==
    /\ \E c \in CallIds : Done(c)
    /\ \A c \in CallIds :
          /\ calls[c].pc \in {"idle", "done"}
          /\ calls[c].during = {}
          /\ Done(c) => Returned(c)

-----------------------------------------------------------------------------
\* C1: on a found descriptor whose rig package resolves and has no folder for
\* the profile, every call fails with the error naming the profile and the
\* package; and no call returns a path that does not exist.
C1_MissingProfileAlwaysFails ==
    \A c \in CallIds :
        /\ (Done(c) /\ ProfileFolderMissing) =>
              /\ calls[c].result.kind = "throw"
              /\ Contains(calls[c].result.message, this.rigProfile)
              /\ Contains(calls[c].result.message, this.rigPackageName)
        /\ Returned(c) => fsExists(calls[c].result.value)

\* C2: a call made after a call has returned does no package lookup and no
\* existence check and returns the same path; over a sequence of successful
\* calls the lookup and the check are each done exactly once.
C2_ResolvedOnce ==
    /\ \A c \in CallIds :
          calls[c].afterSuccess =>
              /\ Returned(c)
              /\ calls[c].lookups = 0
              /\ calls[c].checks = 0
              /\ \A d \in CallIds : Returned(d) => calls[d].result = calls[c].result
    /\ SuccessfulSequence => (TotalLookups = 1 /\ TotalChecks = 1)

\* A sync call returned, and an async call made after it has returned too.
C2_Witness ==
    /\ SuccessfulSequence
    /\ \E c, d \in CallIds :
          /\ c < d
          /\ Returned(c) /\ ~calls[c].async
          /\ Returned(d) /\ calls[d].async /\ calls[d].afterSuccess

\* C8: two getResolvedProfileFolderAsync calls in flight at the same time on a
\* found descriptor (no sync call being made on it) each end as one call alone
\* would on that disk.
C8_OverlappingCallsEndAsOne ==
    \A c, d \in CallIds :
        (/\ this.rigFound
         /\ \A e \in CallIds : calls[e].pc # "idle" => calls[e].async
         /\ d \in calls[c].during
         /\ Done(c) /\ Done(d)) =>
            /\ calls[c].result = SingleCallOutcome
            /\ calls[d].result = SingleCallOutcome

AllEqual(seq) == \A i, j \in 1..Len(seq) : seq[i] = seq[j]

\* C9 as stated: each of the two memoized fields is assigned at most once, and
\* keeps the value assigned.
C9_EachFieldAssignedOnce ==
    /\ Len(packageFolderWrites) <= 1
    /\ Len(profileFolderWrites) <= 1
    /\ AllEqual(packageFolderWrites)
    /\ AllEqual(profileFolderWrites)

\* C9 amended: the profile folder is assigned at most once; the package folder
\* is assigned at most once by a call, and only by a call that did the package
\* lookup, always with the same value; a field that is set holds that value.
C9_AssignedValueNeverChanges ==
    /\ Len(profileFolderWrites) <= 1
    /\ Len(packageFolderWrites) <= Cardinality({c \in CallIds : calls[c].lookups = 1})
    /\ AllEqual(packageFolderWrites)
    /\ \A i \in 1..Len(packageFolderWrites) : resolvedRigPackageFolder = packageFolderWrites[i]
    /\ \A i \in 1..Len(profileFolderWrites) : resolvedProfileFolder = profileFolderWrites[i]
    /\ packageFolderWrites = <<>> => resolvedRigPackageFolder = Undefined
    /\ profileFolderWrites = <<>> => resolvedProfileFolder = Undefined

\* Two overlapping async calls have both assigned the package folder.
C9_Witness ==
    /\ Len(packageFolderWrites) = 2
    /\ Len(profileFolderWrites) = 1
    /\ \E c, d \in CallIds : d \in calls[c].during /\ Done(c) /\ Done(d)

====
